---------------------------- MODULE Spec2Model ----------------------------
(***************************************************************************)
(* Model of the command interpretation pipeline of src/bridge.py:          *)
(* normalize_es, deterministic_fastpath, apply_guardrails and interpret    *)
(* (model call, guardrails, coherence post-processing).                    *)
(*                                                                         *)
(* A text is a sequence of atoms.  An atom is a maximal run of characters  *)
(* of one lexical class: a word or numeral (a run of \w characters), one   *)
(* space, or one punctuation character.  Two word/numeral atoms are never  *)
(* adjacent, so the regular expressions' \b falls exactly between atoms.   *)
(* An optional value (a missing key, None) is the empty sequence, a        *)
(* present value v is <<v>>.                                               *)
(***************************************************************************)
EXTENDS Integers, Sequences, FiniteSets, TLC

VARIABLES text, state, catalog, api_key, pc, candidate_actions,
          safe_actions, response, calls, run1, run2,
          now, LAST_ISSUED, inflight, cache, payload, normalize_filters

\* the module-level state of the process and the requests in flight
server == <<now, LAST_ISSUED, inflight, cache, payload, normalize_filters>>

vars == <<text, state, catalog, api_key, pc, candidate_actions,
          safe_actions, response, calls, run1, run2, server>>

\* src/bridge.py:388, 486: both dictionaries are empty when the process starts
ServerStart ==
  /\ now = 0
  /\ LAST_ISSUED = <<>>
  /\ inflight = <<>>
  /\ cache = <<>>
  /\ payload = <<>>
  /\ normalize_filters = <<>>

(* ------------------------------ bounds --------------------------------- *)
\* largest numeral the texts and the arithmetic of the model range over
MaxNum == 99
\* longest text, in atoms, the normaliser is run on
MaxAtoms == 4

None == <<>>
Some(v) == <<v>>
\* Python truthiness of an optional integer: None and 0 are falsy
TruthyInt(o) == o # <<>> /\ o[1] # 0
\* Python truthiness of an optional text: None and "" are falsy
TruthyTxt(o) == o # <<>> /\ o[1] # <<>>

(* ------------------------------ atoms ---------------------------------- *)
SP == " "
NumAtoms == {ToString(n) : n \in 0..MaxNum}
IsNum(a) == a \in NumAtoms
AtomToInt(a) == CHOOSE n \in 0..MaxNum : ToString(n) = a
\* characters src/bridge.py:1014 keeps although they are not \w
KeptPunct == {"/", ".", "-"}
\* characters outside the domain alphabet of src/bridge.py:1014
StrippedPunct == {",", "!", "?"}
\* glyphs rewritten by _normalize_quotes_punct
Glyphs == {"½", "¼", "¾"}
IsPunct(a) == a \in KeptPunct \cup StrippedPunct
\* a run of \w characters: a word or a numeral
IsWordish(a) == a # SP /\ ~IsPunct(a)

RECURSIVE Flat(_)
Flat(ss) == IF ss = <<>> THEN <<>> ELSE Head(ss) \o Flat(Tail(ss))

\* str.strip(): leading and trailing whitespace removed
RECURSIVE LStrip(_)
LStrip(s) == IF s # <<>> /\ s[1] = SP THEN LStrip(Tail(s)) ELSE s
RECURSIVE RStrip(_)
RStrip(s) ==
  IF s # <<>> /\ s[Len(s)] = SP THEN RStrip(SubSeq(s, 1, Len(s) - 1)) ELSE s
Strip(s) == RStrip(LStrip(s))

\* str.split(): the maximal runs of non-space atoms
RECURSIVE SplitFrom(_, _, _)
SplitFrom(s, i, cur) ==
  IF i > Len(s) THEN (IF cur = <<>> THEN <<>> ELSE <<cur>>)
  ELSE IF s[i] = SP
       THEN (IF cur = <<>> THEN <<>> ELSE <<cur>>) \o SplitFrom(s, i + 1, <<>>)
       ELSE SplitFrom(s, i + 1, Append(cur, s[i]))
SplitTokens(s) == SplitFrom(s, 1, <<>>)

\* " ".join(tokens)
RECURSIVE JoinTokens(_)
JoinTokens(toks) ==
  IF toks = <<>> THEN <<>>
  ELSE IF Len(toks) = 1 THEN toks[1]
  ELSE toks[1] \o <<SP>> \o JoinTokens(Tail(toks))

\* re.sub(r"\s+", " ", s).strip()
CollapseSpaces(s) == JoinTokens(SplitTokens(s))

\* the text made of the given words separated by single spaces
Words(ws) == JoinTokens([i \in DOMAIN ws |-> <<ws[i]>>])

(* ------------------- regular expressions over atoms -------------------- *)
RECURSIVE SkipSpaces(_, _)
SkipSpaces(s, i) == IF i <= Len(s) /\ s[i] = SP THEN SkipSpaces(s, i + 1) ELSE i

\* how many spaces may separate two consecutive elements of a pattern
ADJ == {0}           \* none: the characters are adjacent
ONE == {1}           \* one literal space
SPS == Nat           \* \s*
SPP == Nat \ {0}     \* \s+

\* A pattern is a sequence of elements [a |-> set of atoms, sep |-> number of
\* spaces allowed before the element].  Pat gives every element the same sep.
Pat(sets, sep) == [k \in DOMAIN sets |-> [a |-> sets[k], sep |-> sep]]

\* the positions of the atoms matched by pat[k..] starting at i, or <<>>
RECURSIVE MatchFrom(_, _, _, _)
MatchFrom(s, i, pat, k) ==
  IF i > Len(s) \/ i < 1 THEN <<>>
  ELSE IF s[i] \notin pat[k].a THEN <<>>
  ELSE IF k = Len(pat) THEN <<i>>
  ELSE LET j == SkipSpaces(s, i + 1)
           r == IF (j - (i + 1)) \in pat[k + 1].sep
                THEN MatchFrom(s, j, pat, k + 1) ELSE <<>>
       IN IF r = <<>> THEN <<>> ELSE <<i>> \o r

MatchPos(s, i, pat) == MatchFrom(s, i, pat, 1)
\* the position after a match of pat that starts at i, or 0
MatchAt(s, i, pat) ==
  LET r == MatchPos(s, i, pat) IN IF r = <<>> THEN 0 ELSE r[Len(r)] + 1

\* re.search: some position matches
Search(s, pat) == \E i \in 1..Len(s) : MatchAt(s, i, pat) # 0
\* first matching position (0 if none)
FirstMatch(s, pat) ==
  IF Search(s, pat)
  THEN CHOOSE i \in 1..Len(s) :
         /\ MatchAt(s, i, pat) # 0
         /\ \A j \in 1..(i - 1) : MatchAt(s, j, pat) = 0
  ELSE 0

\* \bA\b.*\bB\b : an atom of A somewhere before an atom of B
SearchThen(s, A, B) ==
  \E i \in 1..Len(s) : \E j \in (i + 1)..Len(s) : s[i] \in A /\ s[j] \in B

HasAtom(s, A) == \E i \in 1..Len(s) : s[i] \in A

\* re.sub(pat, repl, s): every leftmost non-overlapping match replaced
RECURSIVE ReSubFrom(_, _, _, _)
ReSubFrom(s, i, pat, repl) ==
  IF i > Len(s) THEN <<>>
  ELSE LET e == MatchAt(s, i, pat)
       IN IF e # 0 THEN repl \o ReSubFrom(s, e, pat, repl)
          ELSE <<s[i]>> \o ReSubFrom(s, i + 1, pat, repl)
ReSub(s, pat, repl) == ReSubFrom(s, 1, pat, repl)

(* ----------------------------- normaliser ------------------------------ *)
NUM_MAP ==
  [w \in {"cero", "uno", "una", "dos", "tres", "cuatro", "cinco", "seis",
          "siete", "ocho", "nueve", "diez", "once", "doce", "trece",
          "catorce", "quince", "dieciseis", "diecisiete", "dieciocho",
          "diecinueve", "veinte", "veintiuno", "veintidos", "veintitres",
          "veinticuatro", "veinticinco", "veintiseis", "veintisiete",
          "veintiocho", "veintinueve", "treinta", "cuarenta", "cincuenta",
          "sesenta", "setenta", "ochenta", "noventa"} |->
     CASE w = "cero" -> 0 [] w \in {"uno", "una"} -> 1 [] w = "dos" -> 2
       [] w = "tres" -> 3 [] w = "cuatro" -> 4 [] w = "cinco" -> 5
       [] w = "seis" -> 6 [] w = "siete" -> 7 [] w = "ocho" -> 8
       [] w = "nueve" -> 9 [] w = "diez" -> 10 [] w = "once" -> 11
       [] w = "doce" -> 12 [] w = "trece" -> 13 [] w = "catorce" -> 14
       [] w = "quince" -> 15 [] w = "dieciseis" -> 16
       [] w = "diecisiete" -> 17 [] w = "dieciocho" -> 18
       [] w = "diecinueve" -> 19 [] w = "veinte" -> 20
       [] w = "veintiuno" -> 21 [] w = "veintidos" -> 22
       [] w = "veintitres" -> 23 [] w = "veinticuatro" -> 24
       [] w = "veinticinco" -> 25 [] w = "veintiseis" -> 26
       [] w = "veintisiete" -> 27 [] w = "veintiocho" -> 28
       [] w = "veintinueve" -> 29 [] w = "treinta" -> 30
       [] w = "cuarenta" -> 40 [] w = "cincuenta" -> 50
       [] w = "sesenta" -> 60 [] w = "setenta" -> 70
       [] w = "ochenta" -> 80 [] w = "noventa" -> 90]
\* "media" and "medio" map to 0.5, printed "0.5"
HALF_WORDS == {"media", "medio"}

ORD_MAP ==
  [w \in {"primero", "segundo", "tercero", "cuarto", "quinto"} |->
     CASE w = "primero" -> 1 [] w = "segundo" -> 2 [] w = "tercero" -> 3
       [] w = "cuarto" -> 4 [] w = "quinto" -> 5]

normalize_quotes_punct(s) ==
  Flat([i \in DOMAIN s |->
          CASE s[i] = "½" -> <<"1", "/", "2">>
            [] s[i] = "¼" -> <<"1", "/", "4">>
            [] s[i] = "¾" -> <<"3", "/", "4">>
            [] OTHER -> <<s[i]>>])

\* strip_accents(a).lower() of one atom
Unaccent(a) ==
  CASE a = "ítem" -> "item" [] a = "último" -> "ultimo"
    [] a = "sacá" -> "saca" [] a = "cerrá" -> "cerra"
    [] a = "facturá" -> "factura" [] a = "caño" -> "cano"
    [] a = "débito" -> "debito" [] a = "crédito" -> "credito"
    [] a = "número" -> "numero" [] a = "borrá" -> "borra"
    [] OTHER -> a
strip_accents_lower(s) == [i \in DOMAIN s |-> Unaccent(s[i])]


\* the loop over decenas x unidades of re.sub(rf"\b{d}\s+y\s+{u}\b", ...)
RECURSIVE ReSubDecenas(_, _)
ReSubDecenas(s, i) ==
  IF i > Len(s) THEN <<>>
  ELSE LET e == MatchAt(s, i,
                 Pat(<<{"treinta", "cuarenta", "cincuenta", "sesenta", "setenta",
                        "ochenta", "noventa"},
                       {"y"},
                       {"uno", "una", "dos", "tres", "cuatro", "cinco", "seis",
                        "siete", "ocho", "nueve"}>>, SPP))
       IN IF e # 0
          THEN <<SP, ToString(NUM_MAP[s[i]] + NUM_MAP[s[e - 1]]), SP>>
                 \o ReSubDecenas(s, e)
          ELSE <<s[i]>> \o ReSubDecenas(s, i + 1)

\* _words_to_number_simple on one whitespace-delimited token, printed
WordToNumber(tok) ==
  IF Len(tok) = 1 /\ tok[1] \in DOMAIN NUM_MAP THEN <<ToString(NUM_MAP[tok[1]])>>
  ELSE IF Len(tok) = 1 /\ tok[1] \in HALF_WORDS THEN <<"0", ".", "5">>
  ELSE tok

\* the loop over _ORD_MAP of re.sub(rf"\b{w}\b", f" {n} ", s)
ReSubOrdinals(s) ==
  Flat([i \in DOMAIN s |->
          IF s[i] \in DOMAIN ORD_MAP THEN <<SP, ToString(ORD_MAP[s[i]]), SP>>
          ELSE <<s[i]>>])

\* src/bridge.py:986-996: token by token
NumberTokens(toks) == JoinTokens([i \in DOMAIN toks |-> WordToNumber(toks[i])])

replace_spelled_numbers(t) ==
  NumberTokens(SplitTokens(ReSubDecenas(ReSubOrdinals(
    ReSub(ReSub(ReSub(<<SP>> \o t \o <<SP>>,
                      Pat(<<{"tres"}, {"cuartos"}>>, SPP), <<SP, "3", "/", "4", SP>>),
                Pat(<<{"un"}, {"cuarto"}>>, SPP), <<SP, "1", "/", "4", SP>>),
          Pat(<<HALF_WORDS, {"pulgada", "pulgadas"}>>, SPP),
          <<SP, "1", "/", "2", SP, "in", SP>>)), 1)))

\* src/bridge.py:1014: characters outside the domain alphabet become a space
StripForeign(s) ==
  [i \in DOMAIN s |-> IF s[i] \in StrippedPunct THEN SP ELSE s[i]]

PhoneticFix(s) ==
  Flat([i \in DOMAIN s |->
          IF s[i] \in {"canon", "canyo", "cano"} THEN <<SP, "caño", SP>>
          ELSE <<s[i]>>])

\* \b(\d{1,3})\s*mm\b
UnitMM(s) ==
  LET i == FirstMatch(s, Pat(<<NumAtoms, {"mm"}>>, SPS))
  IN IF i = 0 THEN None ELSE Some(AtomToInt(s[i]))

\* \b(1/4|1/2|3/4)\b at position i, in hundredths of an inch, or 0
FracAt(s, i) ==
  IF MatchAt(s, i, Pat(<<{"1"}, {"/"}, {"4"}>>, ADJ)) # 0 THEN 25
  ELSE IF MatchAt(s, i, Pat(<<{"1"}, {"/"}, {"2"}>>, ADJ)) # 0 THEN 50
  ELSE IF MatchAt(s, i, Pat(<<{"3"}, {"/"}, {"4"}>>, ADJ)) # 0 THEN 75
  ELSE 0

INCH_UNITS == {"in", "pulg", "pulgadas"}
\* \b(\d+(?:\.\d+)?)\s*(in|pulg|pulgadas)\b at position i, in hundredths, or
\* the empty sequence
DecimalInAt(s, i) ==
  LET e == MatchAt(s, i, Pat(<<NumAtoms, {"."}, NumAtoms>>, ADJ))
      f == IF e # 0 THEN AtomToInt(s[i + 2]) ELSE 0
  IN IF e # 0 /\ SkipSpaces(s, e) <= Len(s) /\ s[SkipSpaces(s, e)] \in INCH_UNITS
     THEN Some(100 * AtomToInt(s[i]) + (IF f < 10 THEN 10 * f ELSE f))
     ELSE IF MatchAt(s, i, Pat(<<NumAtoms, INCH_UNITS>>, SPS)) # 0
          THEN Some(100 * AtomToInt(s[i]))
          ELSE None

\* the inch measurement, in hundredths of an inch
UnitIN(s) ==
  LET fr == {i \in 1..Len(s) : FracAt(s, i) # 0}
      dc == {i \in 1..Len(s) : DecimalInAt(s, i) # None}
  IN IF fr # {} THEN Some(FracAt(s, CHOOSE i \in fr : \A j \in fr : i <= j))
     ELSE IF dc # {} THEN DecimalInAt(s, CHOOSE i \in dc : \A j \in dc : i <= j)
     ELSE None

\* src/bridge.py:1022-1043: units and tokens of the final text
NormResult(s) ==
  [text |-> s, tokens |-> SplitTokens(s), units |-> [mm |-> UnitMM(s), in |-> UnitIN(s)]]

\* src/bridge.py:998 normalize_es
normalize_es(t) ==
  IF t = <<>> THEN [text |-> <<>>, tokens |-> <<>>, units |-> [mm |-> None, in |-> None]]
  ELSE NormResult(PhoneticFix(CollapseSpaces(StripForeign(
         replace_spelled_numbers(strip_accents_lower(normalize_quotes_punct(t)))))))

(* --------------------------- conversation state ------------------------ *)
\* the state mapping with every key missing ({} in the request)
\* results_kind is "list", or "number" for a results value that is no list
EmptyState ==
  [mode |-> "", results |-> <<>>, results_kind |-> "list", selected_index |-> None,
   qty_hint |-> None, cart |-> <<>>, payments |-> <<>>]

(* ------------------------------- actions ------------------------------- *)
\* params with every key missing ({}); each key holds an optional value
NoParams ==
  [index |-> None, qty |-> None, term |-> None, query |-> None, name |-> None,
   mode |-> None, mop |-> None, question |-> None, extra |-> None]
Act(name, params) == [action |-> name, params |-> params]
HasAction(acts, name) == \E i \in DOMAIN acts : acts[i].action = name

\* [a for a in acts if a["action"] != name]
Without(acts, name) == LET keep(a) == a.action # name IN SelectSeq(acts, keep)

Q_WHICH_ITEM == "¿Sobre qué ítem aplico el cambio de cantidad?"
Q_PAYMENT ==
  "¿Cómo vas a pagar? Indicá el modo de pago (efectivo, débito, crédito, transferencia, QR)."
Q_CART_RANGE(n) ==
  "¿Qué ítem del carrito querés borrar? Decime un número del 1 al " \o ToString(n) \o "."
Q_CART_WHICH ==
  "¿Cuál ítem del carrito querés borrar? Decime un índice (1..N) o el nombre."

(* ------------------------------ fast path ------------------------------ *)
\* the number captured by the leftmost match of one of the patterns pats (a
\* sequence, tried in order at each position); cap[k] is the index, within
\* pats[k], of the element that is the captured numeral
LeftmostHit(hits) ==
  CHOOSE x \in hits : \A y \in hits : x[1] < y[1] \/ (x[1] = y[1] /\ x[2] <= y[2])
CapturedAt(s, h, pats, cap) ==
  Some(AtomToInt(s[MatchPos(s, h[1], pats[h[2]])[cap[h[2]]]]))
CaptureIn(s, hits, pats, cap) ==
  IF hits = {} THEN None ELSE CapturedAt(s, LeftmostHit(hits), pats, cap)
CaptureNum(s, pats, cap) ==
  CaptureIn(s, {h \in (1..Len(s)) \X DOMAIN pats : MatchPos(s, h[1], pats[h[2]]) # <<>>},
            pats, cap)

\* the first of the optional values that is present
FirstOf(a, b) == IF a # None THEN a ELSE b

\* src/bridge.py:1045 parse_index_from_text
ITEM_WORDS == {"item", "items"}
parse_index_from_text(norm_text) ==
  FirstOf(CaptureNum(norm_text,
                     <<Pat(<<ITEM_WORDS, NumAtoms>>, SPS),
                       Pat(<<ITEM_WORDS, {"numero"}, NumAtoms>>, SPS)>>,
                     <<2, 3>>),
          CaptureNum(norm_text, <<Pat(<<{"el"}, NumAtoms>>, SPS)>>, <<2>>))


\* a literal phrase of two words followed by \s*(\d+)
Phrase2(w1, w2) ==
  <<[a |-> {w1}, sep |-> ADJ], [a |-> {w2}, sep |-> ONE], [a |-> NumAtoms, sep |-> SPS]>>

\* \b(agrega|agregar|pone|poner|sumar)\b.*\b(\d+)\b : the last numeral after
\* the leftmost verb
LastNumAfterVerb(s) ==
  LET vs == {i \in 1..Len(s) : s[i] \in {"agrega", "agregar", "pone", "poner", "sumar"}}
      v == CHOOSE i \in vs : \A j \in vs : i <= j
      ns == {j \in 1..Len(s) : IsNum(s[j]) /\ j > v}
  IN IF vs = {} \/ ns = {} THEN None
     ELSE Some(AtomToInt(s[CHOOSE j \in ns : \A k \in ns : k <= j]))

\* src/bridge.py:1058 parse_qty_ops: <<qty_abs, delta_plus, delta_minus>>
parse_qty_ops(norm_text) ==
  <<FirstOf(CaptureNum(norm_text,
                 <<Pat(<<{"cantidad"}, NumAtoms>>, SPS), Phrase2("dejalo", "en"),
                   Phrase2("deja", "en"), Phrase2("poner", "cantidad"),
                   Phrase2("pone", "cantidad"), Phrase2("pone", "en"),
                   Phrase2("ajusta", "a"), Phrase2("ajustar", "a")>>,
                 <<2, 3, 3, 3, 3, 3, 3, 3>>),
     FirstOf(CaptureNum(norm_text,
                <<Pat(<<{"agregado", "agrega", "agregar", "puesto", "pone", "poner",
                         "ponedo"}, {"a"}, NumAtoms>>, SPS)>>, <<3>>),
      FirstOf(CaptureNum(norm_text,
                <<Pat(<<{"a"}, NumAtoms, {"unidad", "unidades"}>>, SPS)>>, <<2>>),
              LastNumAfterVerb(norm_text)))),
    CaptureNum(norm_text,
      <<Pat(<<{"sumale", "agregale", "aumenta", "subi", "subile", "sumar", "agregar"},
              NumAtoms>>, SPS)>>, <<2>>),
    CaptureNum(norm_text,
      <<Pat(<<{"sacale", "quitale", "disminui", "baja", "bajale", "restale", "restar"},
              NumAtoms>>, SPS)>>, <<2>>)>>

\* confirm(ar|o|ado|ame|emos)? | factur(a|ar|á) | cerr(ar|á)\s*venta, no space
FP_CONFIRM_WORDS ==
  {"confirm", "confirmar", "confirmo", "confirmado", "confirmame", "confirmemos",
   "factura", "facturar", "facturá", "cerrarventa", "cerráventa"}
FPConfirm(s) ==
  HasAtom(s, FP_CONFIRM_WORDS) \/ Search(s, Pat(<<{"cerrar", "cerrá"}, {"venta"}>>, SPS))

MODE_WORDS == {"presupuesto", "factura", "remito"}
Upper(w) ==
  CASE w = "presupuesto" -> "PRESUPUESTO" [] w = "factura" -> "FACTURA"
    [] w = "remito" -> "REMITO"

FP_SEARCH_VERBS == {"busca", "buscar", "buscame", "mostra", "mostrar", "mostrame"}
\* re.sub(r"^\s*(busca[r]?|buscame|mostra[r]?|mostrame)\s*[:,-]?\s*", "", s).strip()
\* The alternatives are tried in order and nothing anchors their end, so
\* "buscame" and "mostrame" lose only "busca" and "mostra".
FPSearchTerm(s) ==
  LET i == SkipSpaces(s, 1)
      rest == SubSeq(s, i + 1, Len(s))
      j == SkipSpaces(rest, 1)
      afterSep == IF j <= Len(rest) /\ rest[j] = "-"
                  THEN SubSeq(rest, SkipSpaces(rest, j + 1), Len(rest))
                  ELSE SubSeq(rest, j, Len(rest))
  IN IF i > Len(s) \/ s[i] \notin FP_SEARCH_VERBS THEN Strip(s)
     ELSE IF s[i] \in {"buscame", "mostrame"} THEN Strip(<<"me">> \o rest)
     ELSE Strip(afterSep)

\* atoms of one character
OneChar == {ToString(n) : n \in 0..9} \cup KeptPunct \cup StrippedPunct \cup {SP, "a", "y", "o"}
\* len(name) >= 2 of a stripped text
AtLeast2Chars(t) == Len(t) >= 2 \/ (Len(t) = 1 /\ t[1] \notin OneChar)

\* \b(?:borra(?:r)?|saca(?:r)?|quita(?:r)?)\s+(?:el|la)?\s*(.+)\s+del\s+carrito\b
\* group(1).strip(), or None: the leftmost verb, the last "del carrito" after it
FPRemoveName(s) ==
  LET dc == Pat(<<{"del"}, {"carrito"}>>, SPP)
      ok(v, d) == /\ s[v] \in {"borra", "borrar", "saca", "sacar", "quita", "quitar"}
                  /\ MatchAt(s, d, dc) # 0
                  /\ v + 1 < d /\ s[v + 1] = SP /\ s[d - 1] = SP
                  /\ \E k \in (v + 1)..(d - 1) : s[k] # SP
      vs == {v \in 1..Len(s) : \E d \in 1..Len(s) : ok(v, d)}
      v0 == CHOOSE v \in vs : \A w \in vs : v <= w
      ds == {d \in 1..Len(s) : ok(v0, d)}
      d0 == CHOOSE d \in ds : \A e \in ds : e <= d
      mid == Strip(SubSeq(s, v0 + 1, d0 - 1))
      noArt == Strip(Tail(mid))
  IN IF vs = {} THEN None
     ELSE IF mid[1] \in {"el", "la"} /\ noArt # <<>> THEN Some(noArt)
     ELSE Some(mid)


\* int(state.get("qty_hint") or 1)
QtyHint(st) == IF TruthyInt(st.qty_hint) THEN st.qty_hint[1] ELSE 1

item_code_from_index(results, i) ==
  IF ~TruthyInt(i) THEN None
  ELSE IF 1 <= i[1] /\ i[1] <= Len(results) THEN Some(results[i[1]])
  ELSE None

current_qty_for_item_code(cart, code) ==
  IF code = None THEN None
  ELSE LET hit == {k \in DOMAIN cart : cart[k].item_code = code[1] /\ cart[k].qty # None}
       IN IF hit = {} THEN None
          ELSE cart[CHOOSE k \in hit : \A j \in hit : k <= j].qty

Max(a, b) == IF a >= b THEN a ELSE b
OrZero(o) == IF o = None THEN 0 ELSE o[1]

\* src/bridge.py:1192-1213: the actions of rule 7 once the operands are known
SelectQtyPlan(idx, qty_abs, delta_plus, delta_minus, target_index, cur, wantsAdd, st, allowed) ==
  LET sel == IF idx # None /\ "select_index" \in allowed
             THEN <<Act("select_index", [NoParams EXCEPT !.index = idx])>> ELSE <<>>
      base == IF cur # None THEN cur[1] ELSE IF QtyHint(st) >= 0 THEN QtyHint(st) ELSE 1
      new_qty == Max(0, base + OrZero(delta_plus) - OrZero(delta_minus))
  IN IF qty_abs # None
     THEN sel
          \o (IF "set_qty" \in allowed
              THEN <<Act("set_qty", [NoParams EXCEPT !.qty = qty_abs])>> ELSE <<>>)
          \o (IF wantsAdd /\ "add_to_cart" \in allowed
              THEN <<Act("add_to_cart", NoParams)>> ELSE <<>>)
     ELSE IF TruthyInt(delta_plus) \/ TruthyInt(delta_minus)
     THEN IF ~TruthyInt(target_index)
          THEN (IF "ask_user" \in allowed
                THEN <<Act("ask_user", [NoParams EXCEPT !.question = Some(Q_WHICH_ITEM)])>>
                ELSE <<>>)
          ELSE IF "set_qty" \in allowed
          THEN sel
               \o (IF idx = None /\ TruthyInt(st.selected_index) /\ "select_index" \in allowed
                   THEN <<Act("select_index", [NoParams EXCEPT !.index = st.selected_index])>>
                   ELSE <<>>)
               \o <<Act("set_qty", [NoParams EXCEPT !.qty = Some(new_qty)])>>
          ELSE <<>>
     ELSE <<>>

\* src/bridge.py:1185-1190: the target index and the quantity it has in the cart
SelectQtyTarget(idx, ops, target_index, wantsAdd, st, allowed) ==
  SelectQtyPlan(idx, ops[1], ops[2], ops[3], target_index,
                current_qty_for_item_code(st.cart, item_code_from_index(st.results, target_index)),
                wantsAdd, st, allowed)

SelectQtyOps(idx, ops, wantsAdd, st, allowed) ==
  SelectQtyTarget(idx, ops, IF TruthyInt(idx) THEN idx ELSE st.selected_index,
                  wantsAdd, st, allowed)

\* rule 7 of the fast path: selection and quantity (src/bridge.py:1181-1215)
FPSelectQty(ntext, st, allowed) ==
  SelectQtyOps(parse_index_from_text(ntext), parse_qty_ops(ntext),
               HasAtom(ntext, {"agrega", "agregar", "agregado", "sumar", "agregame",
                               "añadir", "poner"}),
               st, allowed)

\* a variant that tries the mode rule before every other rule
FastRulesModeFirst(ntext, st, allowed) ==
  IF "set_mode" \in allowed /\ Search(ntext, Pat(<<{"modo"}, MODE_WORDS>>, SPP))
  THEN <<Act("set_mode", NoParams)>>
  ELSE FPSelectQty(ntext, st, allowed)

\* the rules of deterministic_fastpath on the normalised text, in source order
FastRules(ntext, st, allowed) ==
  LET idx == parse_index_from_text(ntext)
      term == FPSearchTerm(ntext)
      name == FPRemoveName(ntext)
      m_mode == FirstMatch(ntext, Pat(<<{"modo"}, MODE_WORDS>>, SPP))
      modeWord == ntext[MatchPos(ntext, m_mode, Pat(<<{"modo"}, MODE_WORDS>>, SPP))[2]]
  IN IF "confirm_document" \in allowed /\ FPConfirm(ntext)
     THEN <<Act("confirm_document", NoParams)>>
     ELSE IF "set_payment" \in allowed /\ HasAtom(ntext, {"efectivo", "cash"})
     THEN <<Act("set_payment", [NoParams EXCEPT !.mop = Some("Cash")])>>
     ELSE IF "set_payment" \in allowed /\ HasAtom(ntext, {"transferencia", "transferencias"})
     THEN <<Act("set_payment", [NoParams EXCEPT !.mop = Some("Bank Draft")])>>
     ELSE IF "set_payment" \in allowed /\ Search(ntext, Pat(<<{"tarjeta"}, {"credito", "crédito"}>>, SPP))
     THEN <<Act("set_payment", [NoParams EXCEPT !.mop = Some("Credit Card")])>>
     ELSE IF "set_payment" \in allowed /\ Search(ntext, Pat(<<{"tarjeta"}, {"debito", "débito"}>>, SPP))
     THEN <<Act("set_payment", [NoParams EXCEPT !.mop = Some("Debit Card")])>>
     ELSE IF "set_mode" \in allowed /\ m_mode # 0
     THEN <<Act("set_mode", [NoParams EXCEPT !.mode = Some(Upper(modeWord))])>>
     ELSE IF "search" \in allowed /\ HasAtom(ntext, FP_SEARCH_VERBS) /\ term # <<>>
     THEN <<Act("search", [NoParams EXCEPT !.term = Some(term)])>>
     \* "carrito" in ntext is a substring test
     ELSE IF HasAtom(ntext, {"carrito", "carritos"}) /\ HasAtom(ntext, {"ultimo", "último", "final"})
             /\ "remove_last_item" \in allowed
     THEN <<Act("remove_last_item", NoParams)>>
     ELSE IF HasAtom(ntext, {"carrito", "carritos"}) /\ "remove_from_cart" \in allowed
             /\ idx # None /\ Len(st.cart) >= idx[1] /\ idx[1] >= 1
     THEN <<Act("remove_from_cart", [NoParams EXCEPT !.index = idx])>>
     ELSE IF HasAtom(ntext, {"carrito", "carritos"}) /\ "remove_from_cart" \in allowed
             /\ name # None /\ AtLeast2Chars(name[1])
     THEN <<Act("remove_from_cart", [NoParams EXCEPT !.name = name])>>
     ELSE FPSelectQty(ntext, st, allowed)

\* src/bridge.py:1100 deterministic_fastpath; <<>> stands for None (no plan)
deterministic_fastpath(user_text, st, allowed) ==
  FastRules(normalize_es(user_text).text, st, allowed)

(* ------------------------------ guardrails ----------------------------- *)
\* params that is not a mapping (a list, a string, a number)
NotADict == [NoParams EXCEPT !.extra = Some("<not a dict>")]

\* src/bridge.py:102 _coerce_params: a non-dict gives {}; scalar and null
\* values are kept; a nested value survives its JSON round trip unchanged
coerce_params(p) == IF p = NotADict THEN NoParams ELSE p

\* src/bridge.py:140-143 of one whitelisted candidate
CoerceAction(a, p) ==
  Act(a.action,
      IF a.action = "search" /\ p.query # None /\ p.term = None
      THEN [p EXCEPT !.term = p.query, !.query = None] ELSE p)

\* src/bridge.py:138-143 of each whitelisted candidate
CoerceAll(acts) ==
  [i \in DOMAIN acts |-> CoerceAction(acts[i], coerce_params(acts[i].params))]

\* src/bridge.py:133-145: whitelist, coercion, query -> term
Whitelist(allowed, cands) ==
  LET ok(a) == a.action \in allowed IN CoerceAll(SelectSeq(cands, ok))

GR_CONFIRM_WORDS ==
  {"confirm", "confirmar", "confirmo", "confirmado", "confirmame", "confirmemos",
   "factura", "facturá", "facturar"}
\* confirm_regex of src/bridge.py:148
UserWantsConfirm(t) ==
  \/ HasAtom(t, GR_CONFIRM_WORDS)
  \/ Search(t, Pat(<<{"emitir", "emití"}, {"factura", "comprobante"}>>, SPP))
  \/ Search(t, Pat(<<{"emitir", "emití"}, {"la"}, {"factura", "comprobante"}>>, SPP))
  \/ Search(t, Pat(<<{"cerrar", "cerrá"}, {"venta"}>>, SPP))

UserWantsClear(t) == SearchThen(t, {"vacia", "vaciar", "limpia", "limpiar", "borra", "borrar"}, {"carrito"})

UserWantsRemove(t) ==
  SearchThen(t, {"borra", "borrar", "elimina", "eliminar", "saca", "sacar", "quita", "quitar"},
             {"item", "ítem", "producto", "artículo", "carrito"})

UserWantsRemoveLast(t) == HasAtom(t, {"últim", "último", "última", "ultimo", "final"})

GR_SEARCH_VERBS == {"busca", "buscar", "buscame", "mostra", "mostrar", "mostrame"}
SearchOnly(t) ==
  \/ HasAtom(t, GR_SEARCH_VERBS)
  \/ Search(t, <<[a |-> {"quiero"}, sep |-> ADJ], [a |-> {"ver"}, sep |-> ONE]>>)

ModeExplicit(t) == Search(t, Pat(<<{"modo"}, MODE_WORDS>>, SPP))

PAY_WORDS ==
  {"paga", "pagar", "pagame", "cobra", "cobrar", "cobrame", "efectivo", "tarjeta",
   "debito", "débito", "credito", "crédito", "transferencia", "qr", "mercadopago",
   "mp", "pago"}
PayIntent(t) == HasAtom(t, PAY_WORDS)

\* src/bridge.py:212-214: the cleaning of a search term
CleanTerm(term) ==
  LET i == SkipSpaces(term, 1)
      j == SkipSpaces(term, i + 1)
      t1 == IF i <= Len(term) /\ term[i] \in {"a", "al", "la", "el"} /\ j > i + 1
            THEN <<SP>> \o SubSeq(term, j, Len(term)) ELSE term
      t2 == ReSub(t1, Pat(<<{"por"}, {"favor", "fa"}>>, SPS), <<SP>>)
      t3 == [k \in DOMAIN t2 |-> IF t2[k] \in {"porfa", "porfavor", "porfis"} THEN SP ELSE t2[k]]
      t4 == [k \in DOMAIN t3 |->
               IF IsPunct(t3[k]) /\ t3[k] # "/" THEN SP ELSE t3[k]]
  IN CollapseSpaces(t4)

\* src/bridge.py:204-215 applied to one search action
CleanSearch(a) ==
  LET p == a.params
      t == IF p.query # None THEN p.query ELSE p.term
      term == IF t = None THEN <<>> ELSE t[1]
  IN Act(a.action, [p EXCEPT !.query = None, !.term = Some(CleanTerm(term))])

\* src/bridge.py:116 the guardrails' own parse_index_from_text
GuardParseIndex(t) ==
  LET m == CaptureNum(t, <<Pat(<<{"ítem", "tem", "número", "numero", "num", "el"},
                                 NumAtoms>>, SPP)>>, <<2>>)
      nums == {i \in 1..Len(t) : IsNum(t[i])}
  IN IF m # None THEN m
     ELSE IF HasAtom(t, {"carrito"}) /\ nums # {}
          THEN Some(AtomToInt(t[CHOOSE i \in nums : \A j \in nums : i <= j]))
          ELSE None

\* src/bridge.py:156-176 Guardrail B
GuardAddToCart(st, acts) ==
  LET has_prior_select == HasAction(acts, "select_index")
      results_len == Len(st.results)
      a1 == IF ~has_prior_select /\ ~TruthyInt(st.selected_index)
            THEN Without(acts, "add_to_cart") ELSE acts
      isSel(a) == a.action = "select_index"
      idx_actions == SelectSeq(a1, isSel)
      idx0 == IF idx_actions # <<>> THEN idx_actions[1].params.index ELSE None
      idx == IF idx0 = None THEN st.selected_index ELSE idx0
      idx_ok == TruthyInt(idx) /\ 1 <= idx[1] /\ idx[1] <= results_len
  IN IF HasAction(a1, "add_to_cart") /\ ~idx_ok THEN Without(a1, "add_to_cart") ELSE a1

\* src/bridge.py:245-273 cart bounds of one action
GuardCartBounds(st, a) ==
  LET cart_len == Len(st.cart)
      i == IF a.params.index = None THEN 0 ELSE a.params.index[1]
  IN IF a.action # "remove_from_cart" THEN a
     ELSE IF cart_len > 0
     THEN (IF 1 <= i /\ i <= cart_len THEN a
           ELSE Act("ask_user", [NoParams EXCEPT !.question = Some(Q_CART_RANGE(cart_len))]))
     ELSE IF TruthyTxt(a.params.name) THEN a
     ELSE Act("ask_user", [NoParams EXCEPT !.question = Some(Q_CART_WHICH)])

\* len(state.get("results") or []) raises when results is a number
GuardrailsRaise(st) == st.results_kind # "list"

\* a variant of the gate that lets every action through
GateOpen(intent, acts, name) == acts

\* [a for a in acts if a["action"] != name] unless the text shows the intent
Gate(intent, acts, name) == IF intent THEN acts ELSE Without(acts, name)

\* a variant of Guardrail G that filters nothing
SearchOnlyOff(t, acts) == acts

\* src/bridge.py:204-215 Guardrail G
CleanAll(acts) == [i \in DOMAIN acts |-> CleanSearch(acts[i])]
SearchOnlyStage(t, acts) ==
  LET isSearch(a) == a.action = "search"
  IN IF SearchOnly(t) THEN CleanAll(SelectSeq(acts, isSearch)) ELSE acts

\* src/bridge.py:234-243 Guardrail J
IndexOverride(t, idx_from_text, acts) ==
  LET over(a) == IF a.action = "remove_from_cart"
                 THEN Act(a.action, [a.params EXCEPT !.index = idx_from_text]) ELSE a
  IN IF HasAtom(t, {"carrito"}) /\ TruthyInt(idx_from_text)
     THEN [i \in DOMAIN acts |-> over(acts[i])]
     ELSE acts

\* src/bridge.py:245-275
CartBounds(st, acts) == [i \in DOMAIN acts |-> GuardCartBounds(st, acts[i])]

\* a variant in which the safe actions share the params objects of the
\* candidates
ParamsShared == FALSE

\* src/bridge.py:104-114, 143: _coerce_params builds a new dict and every safe
\* action is a new object
ParamsCopied == TRUE

\* the candidate a as the writes of lines 142, 208-215 and 243 would leave it
\* if they went to its own params object
WrittenInPlace(t, a) ==
  IndexOverride(t, GuardParseIndex(t),
                IF SearchOnly(t) /\ a.action = "search"
                THEN CleanAll(<<CoerceAction(a, a.params)>>)
                ELSE <<CoerceAction(a, a.params)>>)[1]

\* the caller's candidate objects after a call of apply_guardrails
CandidatesAfter(t, allowed, cands) ==
  IF ParamsCopied THEN cands
  ELSE [i \in DOMAIN cands |->
          IF cands[i].action \in allowed /\ cands[i].params # NotADict
          THEN WrittenInPlace(t, cands[i]) ELSE cands[i]]

\* the guardrails A..J in the order of the source, on the whitelisted actions
GuardStages(t, st, s0) ==
  CartBounds(st,
   IndexOverride(t, GuardParseIndex(t),
    Gate(PayIntent(t),
     Gate(ModeExplicit(t),
      SearchOnlyStage(t,
       Gate(UserWantsRemoveLast(t),
        Gate(UserWantsRemove(t),
         Gate(UserWantsClear(t),
          GuardAddToCart(st,
           Gate(UserWantsConfirm(t), s0, "confirm_document")),
          "clear_cart"),
         "remove_from_cart"),
        "remove_last_item")),
      "set_mode"),
     "set_payment")))

\* src/bridge.py:88 apply_guardrails (for a state it does not raise on)
apply_guardrails(user_text, st, allowed, cands) ==
  GuardStages(Strip(user_text), st, Whitelist(allowed, cands))

\* src/bridge.py:1628-1643: what interpret keeps when apply_guardrails raised
GuardFallback(allowed, cands) ==
  LET ok(a) == a.action \in allowed IN SelectSeq(cands, ok)

(* ------------------------- coherence post-processor -------------------- *)
\* str(state.get("mode", "")).upper() == "FACTURA" and not state.get("payments")
NeedPaymentFirst(st) == st.mode \in {"FACTURA", "factura"} /\ st.payments = <<>>

\* a variant of the payment gate that drops only the first confirm_document
\* (list.remove instead of the filter)
RECURSIVE WithoutFirst(_, _)
WithoutFirst(acts, name) ==
  IF acts = <<>> THEN <<>>
  ELSE IF Head(acts).action = name THEN Tail(acts)
  ELSE <<Head(acts)>> \o WithoutFirst(Tail(acts), name)
PaymentGateFirstOnly(st, acts) ==
  IF NeedPaymentFirst(st) /\ HasAction(acts, "confirm_document")
  THEN LET a1 == WithoutFirst(acts, "confirm_document")
       IN IF ~HasAction(a1, "set_payment")
          THEN <<Act("ask_user", [NoParams EXCEPT !.question = Some(Q_PAYMENT)])>> \o a1
          ELSE a1
  ELSE acts

\* src/bridge.py:1648-1655
PaymentGate(st, acts) ==
  IF NeedPaymentFirst(st) /\ HasAction(acts, "confirm_document")
  THEN LET a1 == Without(acts, "confirm_document")
       IN IF ~HasAction(a1, "set_payment")
          THEN <<Act("ask_user", [NoParams EXCEPT !.question = Some(Q_PAYMENT)])>> \o a1
          ELSE a1
  ELSE acts

TRIO == {"select_index", "set_qty", "add_to_cart"}
\* src/bridge.py:1657-1665: sorted() is stable; the keys are 10, 20 and 30
Reorder(acts) ==
  LET inTrio(a) == a.action \in TRIO
      notTrio(a) == a.action \notin TRIO
      k10(a) == a.action = "select_index"
      k20(a) == a.action = "set_qty"
      k30(a) == a.action = "add_to_cart"
      trio == SelectSeq(acts, inTrio)
      others == SelectSeq(acts, notTrio)
  IN IF trio # <<>>
     THEN SelectSeq(trio, k10) \o SelectSeq(trio, k20) \o SelectSeq(trio, k30) \o others
     ELSE acts

\* src/bridge.py:1667-1675: the first occurrence of each action is kept
RECURSIVE DedupFrom(_, _)
DedupFrom(acts, seen) ==
  IF acts = <<>> THEN <<>>
  ELSE IF Head(acts) \in seen THEN DedupFrom(Tail(acts), seen)
  ELSE <<Head(acts)>> \o DedupFrom(Tail(acts), seen \cup {Head(acts)})
\* a variant without the removal of duplicates
KeepAll(acts) == acts
Dedup(acts) == DedupFrom(acts, {})

\* src/bridge.py:1646-1675
Coherence(st, acts) == Dedup(Reorder(PaymentGate(st, acts)))

(* ------------------------------- interpret ----------------------------- *)
DEFAULT_ACTIONS ==
  {"set_mode", "search", "select_index", "set_qty", "add_to_cart",
   "set_global_discount", "set_customer", "set_payment", "confirm_document",
   "clear_cart", "repeat", "ask_user", "remove_from_cart", "remove_last_item"}

\* one entry of the request's catalog list: a string, an {action: ...} object,
\* or anything else
CatStr(n) == [kind |-> "str", action |-> n]
CatObj(n) == [kind |-> "obj", action |-> n]
CatOther == [kind |-> "other", action |-> ""]

\* the names a catalog list carries: a variant of the function without the
\* default set
ExtractedNames(cat) ==
  {cat[i].action : i \in {j \in DOMAIN cat : cat[j].kind \in {"str", "obj"}}}

\* src/bridge.py:1427 _normalize_catalog on a list
normalize_catalog(cat) ==
  LET allowed == {cat[i].action : i \in {j \in DOMAIN cat : cat[j].kind \in {"str", "obj"}}}
  IN IF allowed = {} THEN DEFAULT_ACTIONS ELSE allowed

\* a catalog name that is one unpaired surrogate (the JSON string "\ud800"):
\* str.encode("utf-8") raises UnicodeEncodeError on it
LONE_SURROGATE == "\\ud800"

\* src/bridge.py:1488-1550: the system prompt lists every allowed name and is
\* encoded to UTF-8 for its fingerprint, outside any try
PromptEncodes(allowed) == \A n \in allowed : n # LONE_SURROGATE

\* user_text = (body.text or "").strip()
UserText(t) == Strip(t)

\* a variant of the fallback that echoes the text as received
FallbackPlanRaw(t) == <<Act("search", [NoParams EXCEPT !.term = Some(t)])>>

\* src/bridge.py:1616 the plan returned when the model call failed
FallbackPlan(t) == <<Act("search", [NoParams EXCEPT !.term = Some(UserText(t))])>>

\* src/bridge.py:1619-1643: guardrails, or the whitelist alone if they raised
SafeActions(t, st, allowed, cands) ==
  IF GuardrailsRaise(st) THEN GuardFallback(allowed, cands)
  ELSE apply_guardrails(UserText(t), st, allowed, cands)

(* ------------------------------- inputs -------------------------------- *)
\* longest results list of a state
MaxResults == 1
\* longest cart of a state
MaxCart == 2
\* longest list of candidate actions in a model reply
MaxCand == 2

ItemCodes == <<"A", "B", "C", "D">>
ResultsOf(n) == [i \in 1..n |-> ItemCodes[i]]
CartOf(n) == [i \in 1..n |-> [item_code |-> ItemCodes[i], qty |-> Some(i + 1)]]

ListsOver(S, n) == UNION {[1..k -> S] : k \in 0..n}

Catalogs ==
  { <<>>,
    <<CatStr("confirm_document"), CatObj("remove_from_cart"), CatStr("add_to_cart"),
      CatObj("select_index"), CatStr("set_qty"), CatStr("set_payment"), CatOther>>,
    <<CatStr(LONE_SURROGATE)>> }

\* longest list of actions given to the coherence post-processor
MaxBatch == 3

(* ------------------ specification: one interpret request --------------- *)
Init ==
  /\ ServerStart
  /\ text \in
       ({ <<>>,
          Words(<<"hola">>),
          <<SP, "hola", SP>>,
          Words(<<"modo", "factura">>),
          Words(<<"modo", "presupuesto">>),
          Words(<<"modo", "remito">>),
          Words(<<"confirmar">>),
          <<"cerrar", ",", SP, "venta">>,
          Words(<<"cerrá", "venta">>),
          Words(<<"emitir", "comprobante">>),
          Words(<<"efectivo">>),
          Words(<<"pagar">>),
          Words(<<"buscar", "tornillo">>),
          Words(<<"buscar">>),
          Words(<<"buscar", "modo", "remito">>),
          Words(<<"el", "1", "del", "carrito", "cantidad", "2">>),
          Words(<<"quiero", "ver", "la", "carta">>),
          Words(<<"borrá", "el", "último", "del", "carrito">>),
          Words(<<"sacá", "el", "tercero", "del", "carrito">>),
          Words(<<"sacar", "tornillo", "del", "carrito">>),
          Words(<<"vaciar", "carrito">>),
          Words(<<"borrar", "número", "2", "del", "carrito">>),
          Words(<<"ítem", "1", "agregar", "3">>),
          Words(<<"agregar", "3", "ítem", "1">>),
          Words(<<"ítem", "1", "cantidad", "3">>),
          Words(<<"cantidad", "2">>),
          Words(<<"agregar", "3">>),
          Words(<<"agregar">>),
          Words(<<"sumale", "2">>),
          Words(<<"sumale", "0">>),
          Words(<<"el", "1", "sacale", "5">>) })
  /\ state \in
       ({ [mode |-> m, results |-> ResultsOf(r), results_kind |-> "list",
           selected_index |-> s, qty_hint |-> q, cart |-> CartOf(c), payments |-> p] :
            m \in {"PRESUPUESTO", "FACTURA"}, r \in 0..MaxResults,
            s \in {None, Some(1), Some(MaxResults + 1)}, q \in {None, Some(2)},
            c \in 0..MaxCart, p \in {<<>>, <<"Cash">>} }
        \cup
        { [EmptyState EXCEPT !.results_kind = "number", !.mode = m] : m \in {"PRESUPUESTO", "FACTURA"} }
        \cup {EmptyState}
        \cup {[EmptyState EXCEPT !.results = ResultsOf(1), !.selected_index = Some(1),
                                 !.qty_hint = Some(0)]})
  /\ catalog \in Catalogs
  /\ api_key \in BOOLEAN
  /\ pc = "start"
  /\ candidate_actions = <<>>
  /\ safe_actions = <<>>
  /\ response = <<>>
  /\ calls = <<>>
  /\ run1 = <<>>
  /\ run2 = <<>>

\* src/bridge.py:1402: no model credentials, the request fails
RejectNoKey ==
  /\ pc = "start" /\ ~api_key
  /\ pc' = "http500"
  /\ UNCHANGED <<server, text, state, catalog, api_key, candidate_actions, safe_actions,
                 response, calls, run1, run2>>

\* src/bridge.py:1460-1471: the fast path found a plan
FastPathHit ==
  /\ pc = "start" /\ api_key
  /\ LET fast == deterministic_fastpath(UserText(text), state, normalize_catalog(catalog))
     IN /\ fast # <<>>
        /\ response' = fast
  /\ pc' = "done_fast"
  /\ UNCHANGED <<server, text, state, catalog, api_key, candidate_actions, safe_actions,
                 calls, run1, run2>>

\* a variant that goes on to the model whether or not the fast path found a
\* plan
FastPathMissAlways ==
  /\ pc = "start" /\ api_key
  /\ calls' = calls \o <<"erp_list_mops", "llm">>
  /\ pc' = "llm"
  /\ UNCHANGED <<server, text, state, catalog, api_key, candidate_actions, safe_actions,
                 response, run1, run2>>

\* src/bridge.py:1473-1606: no plan; payment methods are listed and the model
\* is called
FastPathMiss ==
  /\ pc = "start" /\ api_key
  /\ deterministic_fastpath(UserText(text), state, normalize_catalog(catalog)) = <<>>
  /\ PromptEncodes(normalize_catalog(catalog))
  /\ calls' = calls \o <<"erp_list_mops", "llm">>
  /\ pc' = "llm"
  /\ UNCHANGED <<server, text, state, catalog, api_key, candidate_actions, safe_actions,
                 response, run1, run2>>

\* src/bridge.py:1473-1550: no plan; payment methods are listed, then encoding
\* the prompt raises and nothing catches it: the request ends with an error
PromptRaises ==
  /\ pc = "start" /\ api_key
  /\ deterministic_fastpath(UserText(text), state, normalize_catalog(catalog)) = <<>>
  /\ ~PromptEncodes(normalize_catalog(catalog))
  /\ calls' = calls \o <<"erp_list_mops">>
  /\ pc' = "http500"
  /\ UNCHANGED <<server, text, state, catalog, api_key, candidate_actions, safe_actions,
                 response, run1, run2>>

\* src/bridge.py:1614-1616: timeout, transport error, bad status, bad JSON
LlmFails ==
  /\ pc = "llm"
  /\ response' = FallbackPlan(text)
  /\ pc' = "done_fallback"
  /\ UNCHANGED <<server, text, state, catalog, api_key, candidate_actions, safe_actions,
                 calls, run1, run2>>

\* src/bridge.py:1608-1688: the model replied with a list of these candidate
\* actions; guardrails and coherence
LlmReplies ==
  /\ pc = "llm"
  /\ \E cands \in ListsOver(
       ({ Act("confirm_document", NoParams),
          Act("add_to_cart", NoParams),
          Act("remove_from_cart", NoParams) }), MaxCand) :
       LET safe == SafeActions(text, state, normalize_catalog(catalog), cands)
       IN /\ candidate_actions' = cands
          /\ safe_actions' = safe
          /\ response' = Coherence(state, safe)
  /\ pc' = "done_llm"
  /\ UNCHANGED <<server, text, state, catalog, api_key, calls, run1, run2>>

Next ==
  RejectNoKey \/ FastPathHit \/ FastPathMiss \/ PromptRaises \/ LlmFails \/ LlmReplies
Spec == Init /\ [][Next]_vars

(* ------------------ specification: apply_guardrails alone -------------- *)
\* the inputs of apply_guardrails: it reads results, selected_index and cart;
\* the candidates are the actions a model reply is made of
InitGuard ==
  /\ ServerStart
  /\ text \in
       ({ <<>>,
          Words(<<"hola">>),
          Words(<<"confirmar">>),
          Words(<<"buscar", "tornillo">>),
          Words(<<"quiero", "ver", "la", "carta">>),
          Words(<<"sacá", "el", "tercero", "del", "carrito">>),
          Words(<<"sacar", "tornillo", "del", "carrito">>),
          Words(<<"pagar">>) })
  /\ state \in
       ({ [EmptyState EXCEPT !.results = ResultsOf(r), !.selected_index = s, !.cart = CartOf(c)] :
            r \in 0..MaxResults, s \in {None, Some(1), Some(MaxResults + 1)}, c \in 0..MaxCart })
  /\ catalog \in Catalogs
  /\ candidate_actions \in ListsOver(
       ({ Act("confirm_document", NoParams),
          Act("add_to_cart", NoParams),
          Act("select_index", [NoParams EXCEPT !.index = Some(1)]),
          Act("remove_from_cart", [NoParams EXCEPT !.index = Some(MaxCart + 1),
                                                   !.name = Some(Words(<<"tornillo">>))]),
          Act("remove_from_cart", NoParams),
          Act("search", [NoParams EXCEPT !.term = Some(Words(<<"a", "la", "carta">>))]),
          Act("set_payment", [NoParams EXCEPT !.mop = Some("Cash")]),
          Act("ask_user", [NoParams EXCEPT !.question = Some(Q_PAYMENT)]) }), MaxCand)
  /\ api_key = TRUE
  /\ pc = "guard0"
  /\ safe_actions = <<>>
  /\ response = <<>>
  /\ calls = <<>>
  /\ run1 = <<>>
  /\ run2 = <<>>

\* apply_guardrails on the candidates
Guard1 ==
  /\ pc = "guard0"
  /\ run1' = apply_guardrails(text, state, normalize_catalog(catalog), candidate_actions)
  /\ candidate_actions' = CandidatesAfter(text, normalize_catalog(catalog), candidate_actions)
  /\ pc' = "guard1"
  /\ UNCHANGED <<server, text, state, catalog, api_key, safe_actions, response, calls, run2>>

\* apply_guardrails on its own output, same text, state and allowed set
Guard2 ==
  /\ pc = "guard1"
  /\ run2' = apply_guardrails(text, state, normalize_catalog(catalog), run1)
  /\ pc' = "guard2"
  /\ UNCHANGED <<server, text, state, catalog, api_key, candidate_actions, safe_actions,
                 response, calls, run1>>

SpecGuard == InitGuard /\ [][Guard1 \/ Guard2]_vars

(* ------------- specification: the guardrails' intent gates ------------- *)
\* the value of a params key the guardrails do not read, here a nested JSON
\* object such as {"customer": {"name": "Juan"}}
NESTED_OBJECT == "{\"name\": \"Juan\"}"

\* candidates of every gated action, a removal by name, and an action whose
\* params hold a nested value
InitGate ==
  /\ ServerStart
  /\ text \in
       ({ Words(<<"hola">>),
          Words(<<"vaciar", "carrito">>),
          Words(<<"sacar", "tornillo", "del", "carrito">>),
          Words(<<"borrá", "el", "último">>),
          Words(<<"modo", "factura">>),
          Words(<<"pagar">>) })
  /\ state \in
       ({[EmptyState EXCEPT !.cart = CartOf(c)] : c \in 0..MaxCart})
  /\ catalog = <<>>
  /\ candidate_actions \in ListsOver(
       ({ Act("clear_cart", NoParams),
          Act("remove_from_cart", [NoParams EXCEPT !.name = Some(Words(<<"tornillo">>))]),
          Act("remove_last_item", NoParams),
          Act("set_mode", [NoParams EXCEPT !.mode = Some("FACTURA")]),
          Act("set_payment", [NoParams EXCEPT !.mop = Some("Cash")]),
          Act("set_customer", [NoParams EXCEPT !.extra = Some(NESTED_OBJECT)]) }), MaxCand)
  /\ api_key = TRUE
  /\ pc = "guard0"
  /\ safe_actions = <<>>
  /\ response = <<>>
  /\ calls = <<>>
  /\ run1 = <<>>
  /\ run2 = <<>>

SpecGate == InitGate /\ [][Guard1 \/ Guard2]_vars

(* --------------- specification: the coherence post-processor ----------- *)
InitPost ==
  /\ ServerStart
  /\ state \in
       ({ [EmptyState EXCEPT !.mode = m, !.payments = p] :
            m \in {"", "PRESUPUESTO", "FACTURA", "factura"}, p \in {<<>>, <<"Cash">>} })
  /\ safe_actions \in ListsOver(
       ({ Act("confirm_document", NoParams),
          Act("set_payment", [NoParams EXCEPT !.mop = Some("Cash")]),
          Act("ask_user", [NoParams EXCEPT !.question = Some(Q_PAYMENT)]),
          Act("ask_user", [NoParams EXCEPT !.question = Some(Q_WHICH_ITEM)]),
          Act("add_to_cart", NoParams),
          Act("set_qty", [NoParams EXCEPT !.qty = Some(2)]),
          Act("select_index", [NoParams EXCEPT !.index = Some(1)]) }), MaxBatch)
  /\ text = <<>>
  /\ catalog = <<>>
  /\ candidate_actions = <<>>
  /\ api_key = TRUE
  /\ pc = "post0"
  /\ response = <<>>
  /\ calls = <<>>
  /\ run1 = <<>>
  /\ run2 = <<>>

\* src/bridge.py:1646-1675 on the guardrailed actions
Post1 ==
  /\ pc = "post0"
  /\ run1' = Coherence(state, safe_actions)
  /\ pc' = "post1"
  /\ UNCHANGED <<server, text, state, catalog, api_key, candidate_actions, safe_actions,
                 response, calls, run2>>

\* the same steps on their own output
Post2 ==
  /\ pc = "post1"
  /\ run2' = Coherence(state, run1)
  /\ pc' = "post2"
  /\ UNCHANGED <<server, text, state, catalog, api_key, candidate_actions, safe_actions,
                 response, calls, run1>>

SpecPost == InitPost /\ [][Post1 \/ Post2]_vars

(* ------------------- specification: the normaliser alone --------------- *)
\* atoms the normaliser's inputs are built from
NormVocab == {SP, ",", "/", "tres", "cuartos", "cano", "último", "treinta",
              "y", "mm", "20", "½"}
WellFormed(s) ==
  \A i \in 1..(Len(s) - 1) :
     ~((IsWordish(s[i]) \/ s[i] \in Glyphs) /\ (IsWordish(s[i + 1]) \/ s[i + 1] \in Glyphs))

InitNorm ==
  /\ ServerStart
  /\ text \in
       ({s \in UNION {[1..n -> NormVocab] : n \in 0..MaxAtoms} : WellFormed(s)})
  /\ state = EmptyState
  /\ catalog = <<>>
  /\ api_key = TRUE
  /\ pc = "norm0"
  /\ candidate_actions = <<>>
  /\ safe_actions = <<>>
  /\ response = <<>>
  /\ calls = <<>>
  /\ run1 = <<>>
  /\ run2 = <<>>

Normalize1 ==
  /\ pc = "norm0"
  /\ run1' = normalize_es(text)
  /\ pc' = "norm1"
  /\ UNCHANGED <<server, text, state, catalog, api_key, candidate_actions,
                 safe_actions, response, calls, run2>>

Normalize2 ==
  /\ pc = "norm1"
  /\ run2' = normalize_es(run1.text)
  /\ pc' = "norm2"
  /\ UNCHANGED <<server, text, state, catalog, api_key, candidate_actions,
                 safe_actions, response, calls, run1>>

SpecNorm == InitNorm /\ [][Normalize1 \/ Normalize2]_vars

(* --------------- specification: the catalog normaliser alone ----------- *)
\* longest catalog of a request
MaxCatalog == 3

InitCat ==
  /\ ServerStart
  /\ catalog \in ListsOver(
       ({CatStr("search"), CatStr("set_qty"), CatObj("set_qty"), CatObj("ask_user"), CatOther}), MaxCatalog)
  /\ text = <<>>
  /\ state = EmptyState
  /\ api_key = TRUE
  /\ pc = "cat0"
  /\ candidate_actions = <<>>
  /\ safe_actions = <<>>
  /\ response = <<>>
  /\ calls = <<>>
  /\ run1 = <<>>
  /\ run2 = <<>>

\* allowed_actions = _normalize_catalog(body.catalog)
NormalizeCatalog ==
  /\ pc = "cat0"
  /\ run1' = normalize_catalog(catalog)
  /\ pc' = "cat1"
  /\ UNCHANGED <<server, text, state, catalog, api_key, candidate_actions,
                 safe_actions, response, calls, run2>>

SpecCat == InitCat /\ [][NormalizeCatalog]_vars

(* --------------------------- realtime_session -------------------------- *)
\* src/bridge.py:389
COOLDOWN_SEC == 2
\* src/bridge.py:390
CACHE_TTL_SEC == 10
\* requests to /realtime/session the model follows
MaxReq == 2
\* last second of the clock
MaxTime == 11
\* request.client.host of the requests
CLIENT_IPS == {"10.0.0.1", "10.0.0.2"}

InitRT ==
  /\ ServerStart
  /\ api_key \in BOOLEAN
  /\ text = <<>>
  /\ state = EmptyState
  /\ catalog = <<>>
  /\ pc = "serving"
  /\ candidate_actions = <<>>
  /\ safe_actions = <<>>
  /\ response = <<>>
  /\ calls = <<>>
  /\ run1 = <<>>
  /\ run2 = <<>>

\* src/bridge.py:432-434: without OPENAI_API_KEY the handler raises 500
RtNoKey ==
  /\ ~api_key
  /\ Len(inflight) < MaxReq
  /\ \E ip \in CLIENT_IPS :
       inflight' = Append(inflight, [ip |-> ip, now |-> now, at |-> "http500", out |-> None])
  /\ UNCHANGED <<now, LAST_ISSUED, cache, payload, normalize_filters, text, state, catalog, api_key, pc,
                 candidate_actions, safe_actions, response, calls, run1, run2>>

\* src/bridge.py:432-446: the handler from its entry to its first await: with
\* an entry of _LAST_ISSUED for the IP that passes the tests of lines 439-443
\* it returns prev["json"], else it sends the POST and waits for the answer
RtArrive ==
  /\ api_key
  /\ Len(inflight) < MaxReq
  /\ \E ip \in CLIENT_IPS :
       inflight' = Append(inflight,
         IF /\ ip \in DOMAIN LAST_ISSUED
            /\ \/ /\ now - LAST_ISSUED[ip].ts < COOLDOWN_SEC
                  /\ now - LAST_ISSUED[ip].ts < CACHE_TTL_SEC
               \/ now - LAST_ISSUED[ip].ts < CACHE_TTL_SEC
           THEN [ip |-> ip, now |-> now, at |-> "cached", out |-> Some(LAST_ISSUED[ip].json)]
           ELSE [ip |-> ip, now |-> now, at |-> "await", out |-> None])
  /\ UNCHANGED <<now, LAST_ISSUED, cache, payload, normalize_filters, text, state, catalog, api_key, pc,
                 candidate_actions, safe_actions, response, calls, run1, run2>>

\* src/bridge.py:446-475: the upstream answers 200 with a new session, which
\* the handler stores under the time it read on entry and returns
RtCreated ==
  \E i \in DOMAIN inflight :
    /\ inflight[i].at = "await"
    /\ calls' = Append(calls, [ip |-> inflight[i].ip, ts |-> inflight[i].now])
    /\ LAST_ISSUED' =
         [k \in DOMAIN LAST_ISSUED \cup {inflight[i].ip} |->
            IF k = inflight[i].ip
              THEN [ts |-> inflight[i].now, json |-> Len(calls) + 1]
              ELSE LAST_ISSUED[k]]
    /\ inflight' = [inflight EXCEPT ![i].at = "created", ![i].out = Some(Len(calls) + 1)]
    /\ UNCHANGED <<now, cache, payload, normalize_filters, text, state, catalog, api_key, pc,
                   candidate_actions, safe_actions, response, run1, run2>>

\* src/bridge.py:465-470, 476-479: another status is passed on, an exception
\* of the client becomes a 500; neither writes _LAST_ISSUED
RtFails ==
  \E i \in DOMAIN inflight :
    /\ inflight[i].at = "await"
    /\ \E at \in {"upstream_error", "http500"} :
         inflight' = [inflight EXCEPT ![i].at = at]
    /\ UNCHANGED <<now, LAST_ISSUED, cache, payload, normalize_filters, text, state, catalog, api_key, pc,
                   candidate_actions, safe_actions, response, calls, run1, run2>>

\* time.time() advances between the steps of the handlers
Tick ==
  /\ now < MaxTime
  /\ now' = now + 1
  /\ UNCHANGED <<LAST_ISSUED, inflight, cache, payload, normalize_filters, text, state, catalog, api_key, pc,
                 candidate_actions, safe_actions, response, calls, run1, run2>>

SpecRT == InitRT /\ [][RtNoKey \/ RtArrive \/ RtCreated \/ RtFails \/ Tick]_vars

(* --------------------------- search_with_stock ------------------------- *)
\* seconds an entry of _cache is served: BRIDGE_CACHE_TTL of the environment
\* (src/bridge.py:40; 20 when unset)
BRIDGE_CACHE_TTL == 2
\* computed responses (fetches from the ERP) the model follows
MaxFetch == 2

\* dict.get: the value under the key, None without the key
Get(d, k) == IF k \in DOMAIN d THEN d[k] ELSE None

\* parse_filters_from_query is imported from a module that is not part of
\* the sources (src/bridge.py:23-24): its result for a query is any of these,
\* chosen once for each query. The clock starts BRIDGE_CACHE_TTL + 1 seconds
\* before its last second, so that an entry can expire
InitSearch ==
  /\ now = MaxTime - BRIDGE_CACHE_TTL - 1
  /\ LAST_ISSUED = <<>>
  /\ inflight = <<>>
  /\ cache = <<>>
  /\ payload = <<>>
  /\ normalize_filters \in
       [{"caño", "quiero caño"} ->
          { [filters |-> <<>>, term |-> "caño"],
            [filters |-> ("name" :> Some("caño")) @@ ("tags" :> Some(<<"pvc">>)),
             term |-> "caño"] }]
  /\ api_key = TRUE
  /\ text = <<>>
  /\ state = EmptyState
  /\ catalog = <<>>
  /\ pc = "serving"
  /\ candidate_actions = <<>>
  /\ safe_actions = <<>>
  /\ response = <<>>
  /\ calls = <<>>
  /\ run1 = <<>>
  /\ run2 = <<>>

\* src/bridge.py:1825-1826: filters = {**parsed["filters"], **incoming_filters}
Filters(p) == p.filters @@ normalize_filters[p.q].filters

\* src/bridge.py:1850-1866, 2110-2125: the nominal mm of a whole number of inches
inch_to_nominal_mm(x) ==
  IF x = None THEN None
  ELSE IF x[1] = 1 THEN Some(32)
  ELSE IF x[1] = 2 THEN Some(63)
  ELSE IF x[1] = 3 THEN Some(90)
  ELSE None

\* src/bridge.py:1910-1911: the parts of ckey that differ between the request
\* bodies above (brands, uom, attributes, pos_profile, warehouse, limit and
\* page are the same for all of them)
ckey(p) == <<Get(Filters(p), "name"), Get(Filters(p), "size_mm")>>

\* src/bridge.py:1985-2003 (ok_tags) and 2127-2190 (size_pats): the rows the local
\* filters keep. A pattern "<v>mm" or "<v> mm" is in the text of a row exactly
\* when v is its measure; no row writes a measure in inches. The rows are what
\* pos_get_items returns for every term of these requests: the data of the
\* ERP, which does not change
KeptRows(f) ==
  { r \in
       ({ [item_code |-> "CA", words |-> {"caño", "pvc"}, mm |-> 32],
          [item_code |-> "CB", words |-> {"caño", "rosca"}, mm |-> 25],
          [item_code |-> "CC", words |-> {"caño", "pvc", "rosca"}, mm |-> 25] }) :
      /\ Get(f, "tags") # None => \A i \in DOMAIN Get(f, "tags")[1] : Get(f, "tags")[1][i] \in r.words
      /\ \/ Get(f, "size_mm") = None /\ Get(f, "size_in") = None
         \/ /\ Get(f, "size_mm") # None
            /\ r.mm = Get(f, "size_mm")[1]
         \/ /\ Get(f, "size_mm") = None
            /\ inch_to_nominal_mm(Get(f, "size_in")) # None
            /\ r.mm = inch_to_nominal_mm(Get(f, "size_in"))[1] }

\* src/bridge.py:1917-2296: the response computed from the ERP: term_raw,
\* the filters echoed and the codes of the items (their order is the ranking's)
FreshResponse(p) ==
  [term_raw |-> p.q,
   applied_filters |->
     [name |-> Get(Filters(p), "name"),
      size_mm |-> Get(Filters(p), "size_mm"),
      size_in |-> Get(Filters(p), "size_in"),
      tags |-> IF Get(Filters(p), "tags") = None THEN <<>> ELSE Get(Filters(p), "tags")[1]],
   items |-> {r.item_code : r \in KeptRows(Filters(p))}]

\* src/bridge.py:488-495: _cache_get
cache_get(key) ==
  IF key \notin DOMAIN cache THEN None
  ELSE IF now - cache[key].ts > BRIDGE_CACHE_TTL THEN None
  ELSE Some(cache[key].data)

\* src/bridge.py:1707-2297: one request: 422 without a query, the entry of
\* _cache when there is a live one, else the computed response, which is
\* stored. The request bodies hold q, the name filter, and at most one of the
\* filters tags, size_in and size_mm
SearchWithStock ==
  \E p \in
       ({ [q |-> q, filters |-> f @@ ("name" :> Some("caño"))] :
            q \in {"", "caño", "quiero caño"},
            f \in {<<>>, "tags" :> Some(<<"pvc">>), "tags" :> Some(<<"rosca">>),
                   "size_in" :> Some(1), "size_mm" :> Some(25)} }) :
    /\ payload' = p
    /\ IF p.q = ""
         THEN pc' = "http422" /\ response' = <<>> /\ UNCHANGED <<cache, calls>>
         ELSE IF cache_get(ckey(p)) # None
         THEN pc' = "http200" /\ response' = cache_get(ckey(p))[1] /\ UNCHANGED <<cache, calls>>
         ELSE /\ Len(calls) < MaxFetch
              /\ pc' = "http200"
              /\ calls' = Append(calls, "pos_get_items")
              /\ response' = FreshResponse(p)
              /\ cache' = [k \in DOMAIN cache \cup {ckey(p)} |->
                             IF k = ckey(p) THEN [ts |-> now, data |-> FreshResponse(p)]
                             ELSE cache[k]]
    /\ UNCHANGED <<now, LAST_ISSUED, inflight, normalize_filters, text, state, catalog,
                   api_key, candidate_actions, safe_actions, run1, run2>>

SpecSearch == InitSearch /\ [][SearchWithStock \/ Tick]_vars

(* ------------------------------ properties ----------------------------- *)
Done == {"done_fast", "done_fallback", "done_llm"}
Guarded == {"guard1", "guard2"}
Posted == {"post1", "post2"}
PaymentAsk == Act("ask_user", [NoParams EXCEPT !.question = Some(Q_PAYMENT)])
CountPaymentAsk(acts) == Cardinality({i \in DOMAIN acts : acts[i] = PaymentAsk})
ValidSelected(st) ==
  /\ st.selected_index # None
  /\ 1 <= st.selected_index[1] /\ st.selected_index[1] <= Len(st.results)

\* C1: every action of the list returned by apply_guardrails, an ask_user
\* that replaces a remove_from_cart included, has a name of the allowed set.
C1_GuardedNamesAllowed ==
  pc \in Guarded =>
    \A i \in DOMAIN run1 : run1[i].action \in normalize_catalog(catalog)

\* C2: on every path through interpret (fast path, fallback search, guardrails
\* and coherence) every returned action has a name of the allowed set derived
\* from the request's catalog.
C2_ResponseNamesAllowed ==
  pc \in Done =>
    \A i \in DOMAIN response : response[i].action \in normalize_catalog(catalog)

\* C3: in the list returned by apply_guardrails an add_to_cart appears only if
\* a select_index precedes it in that list or state.selected_index is a valid
\* 1-based index into state.results.
C3_AddToCartAfterSelect ==
  pc \in Guarded =>
    \A i \in DOMAIN run1 :
       run1[i].action = "add_to_cart" =>
         \/ \E j \in 1..(i - 1) : run1[j].action = "select_index"
         \/ ValidSelected(state)

\* C4: in the list returned by apply_guardrails, for any cart, the empty one
\* included, every remove_from_cart that carries an index has
\* 1 <= index <= len(cart): one out of range has become an ask_user.
C4_RemoveIndexInCart ==
  pc \in Guarded =>
    \A i \in DOMAIN run1 :
       (run1[i].action = "remove_from_cart" /\ run1[i].params.index # None) =>
         (1 <= run1[i].params.index[1] /\ run1[i].params.index[1] <= Len(state.cart))

\* C5: confirm_document is among the actions interpret returns, from the fast
\* path or from the guardrailed planner path, only if the raw request text
\* matches the confirmation pattern (here: that of the guardrails or that of
\* the fast path).
C5_ConfirmNeedsIntent ==
  (pc \in {"done_fast", "done_llm"} /\ HasAction(response, "confirm_document")) =>
    (UserWantsConfirm(text) \/ FPConfirm(text))

\* C6: with mode FACTURA, no payments and a confirm_document among the
\* guardrailed actions, the post-processor's output has no confirm_document;
\* it has exactly one ask_user for the payment method when the batch has no
\* set_payment, and none is added when it has one.
C6_PaymentBeforeConfirm ==
  (/\ pc \in Posted
   /\ state.mode = "FACTURA" /\ state.payments = <<>>
   /\ \E i \in DOMAIN safe_actions : safe_actions[i].action = "confirm_document")
  =>
  (/\ \A i \in DOMAIN run1 : run1[i].action # "confirm_document"
   /\ (\A i \in DOMAIN safe_actions : safe_actions[i].action # "set_payment")
        => CountPaymentAsk(run1) = 1
   /\ (\E i \in DOMAIN safe_actions : safe_actions[i].action = "set_payment")
        => CountPaymentAsk(run1) <= CountPaymentAsk(safe_actions))

\* the batch already held the payment question: the inserted one and the
\* planner's are made one
C6_Witness ==
  /\ pc = "post1"
  /\ state.mode = "FACTURA" /\ state.payments = <<>>
  /\ \E i \in DOMAIN safe_actions : safe_actions[i].action = "confirm_document"
  /\ \A i \in DOMAIN safe_actions : safe_actions[i].action # "set_payment"
  /\ CountPaymentAsk(safe_actions) = 1
  /\ CountPaymentAsk(run1) = 1

C8_GuardrailsIdempotent == pc = "guard2" => run2 = run1

\* C9: normalize_es is idempotent on its text: normalising the text of a
\* normalised utterance gives the same text, tokens and units again.
C9_NormalizeIdempotent == pc = "norm2" => run2 = run1

\* C10: the coherence post-processor is idempotent: run on its own output it
\* returns the same list.
C10_CoherenceIdempotent == pc = "post2" => run2 = run1

\* a batch where all three steps acted: the payment gate, the reordering and
\* the removal of duplicates
C10_Witness ==
  /\ pc = "post2"
  /\ PaymentGate(state, safe_actions) # safe_actions
  /\ Reorder(PaymentGate(state, safe_actions)) # PaymentGate(state, safe_actions)
  /\ Dedup(Reorder(PaymentGate(state, safe_actions))) # Reorder(PaymentGate(state, safe_actions))
  /\ run2 = run1

\* C11: with the empty state and the default allowed set, the text "modo
\* factura" ("modo presupuesto", "modo remito") makes interpret return exactly
\* one set_mode whose mode is the upper-cased word, and no other action.
C11_ModeKeywordSetsMode ==
  \A w \in MODE_WORDS :
     (pc \in Done /\ text = Words(<<"modo", w>>) /\ state = EmptyState /\ catalog = <<>>) =>
        response = <<Act("set_mode", [NoParams EXCEPT !.mode = Some(Upper(w))])>>

\* the text names the item index n ("ítem n") and the quantity q after the
\* word verb ("agregar q", "cantidad q")
NamesItemAndQty(t, n, verb, q) ==
  /\ Search(t, Pat(<<{"ítem", "item"}, {ToString(n)}>>, SPP))
  /\ Search(t, Pat(<<{verb}, {ToString(q)}>>, SPP))

\* C12: for a text that names an item index N, an absolute quantity Q and an
\* explicit add verb, with select_index, set_qty and add_to_cart allowed,
\* interpret returns exactly select_index{N}, set_qty{Q}, add_to_cart{} in
\* that order and the model is not called; with the quantity given without an
\* add verb the plan ends after set_qty.
C12_IndexQtyAddPlan ==
  \A n \in 1..3, q \in 1..3 :
     (pc \in Done /\ {"select_index", "set_qty", "add_to_cart"} \subseteq normalize_catalog(catalog)) =>
        /\ NamesItemAndQty(text, n, "agregar", q) =>
             /\ response = <<Act("select_index", [NoParams EXCEPT !.index = Some(n)]),
                             Act("set_qty", [NoParams EXCEPT !.qty = Some(q)]),
                             Act("add_to_cart", NoParams)>>
             /\ calls = <<>>
        /\ NamesItemAndQty(text, n, "cantidad", q) =>
             /\ response = <<Act("select_index", [NoParams EXCEPT !.index = Some(n)]),
                             Act("set_qty", [NoParams EXCEPT !.qty = Some(q)])>>
             /\ calls = <<>>

\* the text mentions the cart and the position n of one of its items, as a
\* digit ("ítem n", "número n", "el n") or as an ordinal word
ORDINAL_WORDS == <<"primero", "segundo", "tercero", "cuarto", "quinto">>
NamesCartPosition(t, n) ==
  /\ HasAtom(t, {"carrito"})
  /\ \/ Search(t, Pat(<<{"ítem", "item", "número", "numero", "el"}, {ToString(n)}>>, SPP))
     \/ Search(t, Pat(<<{"el"}, {ORDINAL_WORDS[n]}>>, SPP))

\* C13: for a text that mentions the cart and an item position N, as a digit
\* or an ordinal word, with remove_from_cart allowed and 1 <= N <= len(cart),
\* interpret returns exactly one remove_from_cart with index N.
C13_CartPositionRemoved ==
  \A n \in DOMAIN ORDINAL_WORDS :
     (/\ pc \in Done
      /\ NamesCartPosition(text, n)
      /\ "remove_from_cart" \in normalize_catalog(catalog)
      /\ n <= Len(state.cart)) =>
        response = <<Act("remove_from_cart", [NoParams EXCEPT !.index = Some(n)])>>

\* the text is a quantity delta and nothing else: a verb of "d more" or
\* "d fewer" followed by the number d
DELTA_VERBS == {"sumale", "agregale", "sacale", "quitale", "restale"}
OnlyDelta(t, d) == \E v \in DELTA_VERBS : t = Words(<<v, ToString(d)>>)

\* C14: for a text that carries only a quantity delta, with no index in the
\* text, no selected_index in the state and ask_user allowed, interpret
\* returns exactly one ask_user asking which item, with no set_qty and no
\* select_index, and the model is not called.
C14_DeltaWithoutTargetAsks ==
  \A d \in 0..3 :
     (/\ pc \in Done
      /\ OnlyDelta(text, d)
      /\ state.selected_index = None
      /\ "ask_user" \in normalize_catalog(catalog)) =>
        /\ response = <<Act("ask_user", [NoParams EXCEPT !.question = Some(Q_WHICH_ITEM)])>>
        /\ calls = <<>>

\* the plan of the fast path for the request, <<>> if it has none
FastPlan == deterministic_fastpath(UserText(text), state, normalize_catalog(catalog))
ModelCalls == Cardinality({i \in DOMAIN calls : calls[i] = "llm"})

\* C15: within one request the model is invoked at most once, with no retry
\* after a failure, and never when the fast path returned a non-empty plan;
\* in that case the response is the plan of the fast path, unchanged.
\* text, state and catalog never change within a request and every call of
\* the model leads to a state with pc = "llm", so the plan is compared there
\* and where the fast path answered.
C15_ModelCalledAtMostOnce ==
  /\ ModelCalls <= 1
  /\ ModelCalls = 1 <=> pc \in {"llm", "done_llm", "done_fallback"}
  /\ pc = "llm" => FastPlan = <<>>
  /\ pc = "done_fast" => (FastPlan # <<>> /\ response = FastPlan)

\* a request answered by the fast path, and none of the external calls made
C15_Witness ==
  /\ pc = "done_fast"
  /\ FastPlan # <<>>
  /\ response = FastPlan
  /\ calls = <<>>

\* a response of the form {actions: list}: a list of actions, each with a
\* name and params
IsActionList(r) ==
  /\ DOMAIN r = 1..Len(r)
  /\ \A i \in DOMAIN r : DOMAIN r[i] = {"action", "params"}

\* C16: with the model credentials configured, for every text, state and
\* catalog and every outcome of the external calls, interpret terminates and
\* returns {actions: list}; no exception propagates to the caller.  Every
\* step of a request moves pc forward, and at "start" and at "llm" (the model
\* call, which returns or fails within its timeout) a step is always possible:
\* the formula says that a request is at one of these two positions or has
\* returned a list of actions.
C16_InterpretReturnsActions ==
  api_key =>
    \/ pc \in {"start", "llm"}
    \/ pc \in Done /\ IsActionList(response)

\* the entries of a catalog that carry a name: strings and {action: ...} objects
NamedEntries(cat) == {i \in DOMAIN cat : cat[i].kind # "other"}

\* C17: the allowed set derived from the catalog is never empty: for an empty
\* catalog, or one with no recognisable names, it is exactly the default set
\* of 14 names; otherwise it is exactly the names of the catalog's strings and
\* {action: ...} objects.
C17_AllowedSetFromCatalog ==
  pc = "cat1" =>
    /\ run1 # {}
    /\ NamedEntries(catalog) = {} => (run1 = DEFAULT_ACTIONS /\ Cardinality(run1) = 14)
    /\ NamedEntries(catalog) # {} => run1 = {catalog[i].action : i \in NamedEntries(catalog)}

\* a catalog that has entries but none with a name
C17_Witness ==
  /\ pc = "cat1"
  /\ catalog # <<>>
  /\ NamedEntries(catalog) = {}
  /\ run1 = DEFAULT_ACTIONS

\* the text shows the intent that the guardrails ask for before they let an
\* action of this name through
IntentShown(t, name) ==
  CASE name = "clear_cart" -> UserWantsClear(t)
    [] name = "remove_from_cart" -> UserWantsRemove(t)
    [] name = "remove_last_item" -> UserWantsRemoveLast(t)
    [] name = "set_mode" -> ModeExplicit(t)
    [] name = "set_payment" -> PayIntent(t)
GATED == {"clear_cart", "remove_from_cart", "remove_last_item", "set_mode", "set_payment"}

\* C18: for each gated action (clear_cart, remove_from_cart, remove_last_item,
\* set_mode, set_payment): if the text does not match the intent pattern of
\* that action, no instance of it is in the output of apply_guardrails.
C18_GatedNeedsIntent ==
  pc \in Guarded =>
    \A name \in GATED :
       ~IntentShown(text, name) => ~HasAction(run1, name)

\* the planner proposed gated actions of two kinds; the text shows the intent
\* of one of them only, which is kept while the other is dropped
C18_Witness ==
  /\ pc \in Guarded
  /\ \E n1, n2 \in GATED :
       /\ HasAction(candidate_actions, n1) /\ ~IntentShown(text, n1) /\ ~HasAction(run1, n1)
       /\ HasAction(candidate_actions, n2) /\ IntentShown(text, n2) /\ HasAction(run1, n2)

\* a candidate remove_from_cart with a non-empty name and no index
RemovalByName(a) ==
  a.action = "remove_from_cart" /\ TruthyTxt(a.params.name) /\ a.params.index = None

\* C19: a candidate remove_from_cart with a non-empty name and no index, for
\* a text that expresses the removal intent and holds no index term, is kept
\* as remove_from_cart with that name, for every cart, a non-empty one
\* included; it is replaced by an ask_user only when index and name are both
\* missing.
C19_RemovalByNameKept ==
  (/\ pc \in Guarded
   /\ UserWantsRemove(text)
   /\ ~TruthyInt(GuardParseIndex(text))
   /\ ~SearchOnly(text)) =>
     \A i \in DOMAIN candidate_actions :
        RemovalByName(candidate_actions[i]) =>
          /\ \E j \in DOMAIN run1 : run1[j] = candidate_actions[i]
          /\ ~HasAction(run1, "ask_user")

\* C20: in every action returned by apply_guardrails, params is a mapping
\* whose values are all primitive scalars or null: a list or object value of
\* a candidate never reaches the output as a nested structure.
C20_ParamsArePrimitive ==
  pc \in Guarded =>
    \A i \in DOMAIN run1 : run1[i].params.extra # Some(NESTED_OBJECT)

\* the rank of an action in the typical order select_index, set_qty, add_to_cart
TrioRank(a) ==
  CASE a.action = "select_index" -> 1 [] a.action = "set_qty" -> 2
    [] a.action = "add_to_cart" -> 3 [] OTHER -> 0
\* the list as the reordering step receives it
BeforeReorder == PaymentGate(state, safe_actions)

\* C21: the reordering step only permutes the list slots occupied by
\* select_index, set_qty and add_to_cart: afterwards every select_index
\* precedes every set_qty and every set_qty precedes every add_to_cart, while
\* every other action stays at the list position it had before the step.
C21_ReorderKeepsOtherSlots ==
  pc \in Posted =>
    /\ Len(Reorder(BeforeReorder)) = Len(BeforeReorder)
    /\ \A i, j \in DOMAIN BeforeReorder :
         (/\ i < j
          /\ TrioRank(Reorder(BeforeReorder)[i]) > 0
          /\ TrioRank(Reorder(BeforeReorder)[j]) > 0) =>
            TrioRank(Reorder(BeforeReorder)[i]) <= TrioRank(Reorder(BeforeReorder)[j])
    /\ \A i \in DOMAIN BeforeReorder :
         TrioRank(BeforeReorder[i]) = 0 => Reorder(BeforeReorder)[i] = BeforeReorder[i]

\* the normalised text of the request, and the operands of a quantity delta
\* as the fast path reads them in it
NText == normalize_es(UserText(text)).text
DeltaIdx == parse_index_from_text(NText)
DeltaTarget == IF DeltaIdx # None THEN DeltaIdx ELSE state.selected_index
\* the cart quantity of the results item at the target index, None if that
\* item is not in the cart
DeltaCartQty ==
  current_qty_for_item_code(state.cart, item_code_from_index(state.results, DeltaTarget))
\* the fast path answered a quantity delta: no absolute quantity, a target
\* index, and a base quantity that the cart or state.qty_hint gives
HandlesDelta ==
  /\ pc = "done_fast"
  /\ HasAction(response, "set_qty")
  /\ parse_qty_ops(NText)[1] = None
  /\ TruthyInt(parse_qty_ops(NText)[2]) \/ TruthyInt(parse_qty_ops(NText)[3])
  /\ TruthyInt(DeltaTarget)
  /\ DeltaCartQty # None \/ state.qty_hint # None
\* max(0, base + delta_plus - delta_minus), base being the cart quantity or
\* else state.qty_hint clamped at 0
DeltaQty ==
  Max(0, (IF DeltaCartQty # None THEN DeltaCartQty[1] ELSE Max(0, state.qty_hint[1]))
         + OrZero(parse_qty_ops(NText)[2]) - OrZero(parse_qty_ops(NText)[3]))

\* C22: when the fast path handles a quantity delta (no absolute quantity,
\* target index from the text or else from state.selected_index) it emits
\* set_qty{q} with q = max(0, base + delta_plus - delta_minus), base being the
\* cart quantity of the results item at the target index, or state.qty_hint
\* clamped at 0 when that item is not in the cart; q is never negative, and
\* when the target came from the state a select_index for it precedes set_qty.
C22_DeltaQuantity ==
  HandlesDelta =>
    /\ response[Len(response)] = Act("set_qty", [NoParams EXCEPT !.qty = Some(DeltaQty)])
    /\ DeltaQty >= 0
    /\ (DeltaIdx = None /\ "select_index" \in normalize_catalog(catalog)) =>
         response = <<Act("select_index", [NoParams EXCEPT !.index = state.selected_index]),
                      Act("set_qty", [NoParams EXCEPT !.qty = Some(DeltaQty)])>>

\* rule k of the fast path, in the order confirmation, payment method, mode,
\* search, remove last cart item, remove from cart, selection and quantity,
\* is applicable to the request: its pattern matches and its action is allowed
RuleApplies(k) ==
  CASE k = 1 -> "confirm_document" \in normalize_catalog(catalog) /\ FPConfirm(NText)
    [] k = 2 -> /\ "set_payment" \in normalize_catalog(catalog)
                /\ \/ HasAtom(NText, {"efectivo", "cash", "transferencia", "transferencias"})
                   \/ Search(NText, Pat(<<{"tarjeta"}, {"credito", "crédito", "debito", "débito"}>>, SPP))
    [] k = 3 -> "set_mode" \in normalize_catalog(catalog) /\ ModeExplicit(NText)
    [] k = 4 -> /\ "search" \in normalize_catalog(catalog)
                /\ HasAtom(NText, FP_SEARCH_VERBS) /\ FPSearchTerm(NText) # <<>>
    [] k = 5 -> /\ "remove_last_item" \in normalize_catalog(catalog)
                /\ HasAtom(NText, {"carrito", "carritos"}) /\ HasAtom(NText, {"ultimo", "último", "final"})
    [] k = 6 -> /\ "remove_from_cart" \in normalize_catalog(catalog)
                /\ HasAtom(NText, {"carrito", "carritos"})
                /\ \/ (DeltaIdx # None /\ 1 <= DeltaIdx[1] /\ DeltaIdx[1] <= Len(state.cart))
                   \/ (FPRemoveName(NText) # None /\ AtLeast2Chars(FPRemoveName(NText)[1]))
    [] k = 7 -> FPSelectQty(NText, state, normalize_catalog(catalog)) # <<>>
\* the rule an action of a fast-path plan belongs to
RuleOfAction(name) ==
  CASE name = "confirm_document" -> 1 [] name = "set_payment" -> 2 [] name = "set_mode" -> 3
    [] name = "search" -> 4 [] name = "remove_last_item" -> 5
    [] name = "remove_from_cart" -> 6 [] OTHER -> 7
ApplicableRules == {k \in 1..7 : RuleApplies(k)}

\* C23: when a text satisfies more than one fast-path rule, the returned plan
\* is the one of the earliest applicable rule in the fixed order confirmation,
\* payment method, mode, search, remove last cart item, remove from cart by
\* index or name, selection and quantity (a rule is applicable only if its
\* action is allowed), and the plan holds no action of a later rule.
C23_EarliestRuleWins ==
  /\ pc = "done_fast" =>
       /\ ApplicableRules # {}
       /\ \A i \in DOMAIN response :
            \A k \in ApplicableRules : RuleOfAction(response[i].action) <= k
       /\ \E i \in DOMAIN response : RuleOfAction(response[i].action) \in ApplicableRules
  /\ pc = "llm" => ApplicableRules = {}

\* a text that satisfies two rules or more, answered by the fast path
C23_Witness ==
  /\ pc = "done_fast"
  /\ Cardinality(ApplicableRules) >= 2
  /\ \A i \in DOMAIN response :
       \A k \in ApplicableRules : RuleOfAction(response[i].action) <= k

\* C24: when the text contains a free-form search verb (buscar, mostrar,
\* quiero ver ...), every action in the output of apply_guardrails is a
\* search: candidates of any other kind are removed and no later stage
\* introduces an ask_user or another action.
C24_SearchVerbOnlySearch ==
  (pc \in Guarded /\ SearchOnly(text)) =>
     \A i \in DOMAIN run1 : run1[i].action = "search"

\* a search text for which the planner proposed a search and an action of
\* another kind that the text's intent and the whitelist would let through
C24_Witness ==
  /\ pc \in Guarded
  /\ SearchOnly(text)
  /\ \E i, j \in DOMAIN candidate_actions :
       /\ candidate_actions[i].action = "search"
       /\ candidate_actions[j].action \in normalize_catalog(catalog) \ {"search"}
  /\ Len(run1) = 1
  /\ run1[1].action = "search"

\* C25: during one interpret request that reaches the planner the model
\* invocation is the only blocking external call: no other collaborator (ERP,
\* payment-method listing) is contacted before or after it; a request
\* answered by the fast path makes no external call at all.
C25_ModelIsOnlyExternalCall ==
  /\ pc \in {"llm", "done_llm", "done_fallback"} => calls = <<"llm">>
  /\ pc = "done_fast" => calls = <<>>

C27_NoConfirmWithoutPayment ==
  (pc \in Done /\ state.mode = "FACTURA" /\ state.payments = <<>>) =>
     ~HasAction(response, "confirm_document")

\* C28: in every response of interpret that contains add_to_cart, a fast-path
\* plan such as the one for "agregar 3" included, a select_index precedes the
\* add_to_cart in the same response or state.selected_index is a valid
\* 1-based index <= len(state.results).
C28_ResponseAddAfterSelect ==
  pc \in Done =>
    \A i \in DOMAIN response :
       response[i].action = "add_to_cart" =>
         \/ \E j \in 1..(i - 1) : response[j].action = "select_index"
         \/ ValidSelected(state)

\* C29: for one client IP, the sessions realtime_session creates upstream come
\* from requests that arrived at least _CACHE_TTL_SEC apart: a request that
\* arrives less than 10 s after another one of its IP, overlapping or not,
\* creates no second session.
C29_OneSessionPerWindow ==
  \A i, j \in DOMAIN calls :
    (i < j /\ calls[i].ip = calls[j].ip) =>
      \/ calls[j].ts - calls[i].ts >= CACHE_TTL_SEC
      \/ calls[i].ts - calls[j].ts >= CACHE_TTL_SEC

\* C30: a response of search_with_stock served from the cache is the response
\* a fresh computation gives for that request with the same ERP data: it
\* carries the request's own term_raw, applied_filters and items.
C30_HitEqualsFresh ==
  pc = "http200" => response = FreshResponse(payload)

=============================================================================
